---------------------------- MODULE Spec2Model ----------------------------
(***************************************************************************)
(* A model of packages/cells/src/widget.ts: the cell widgets of a notebook *)
(* (Cell, CodeCell, MarkdownCell, RawCell) and CodeCell.execute.           *)
(*                                                                         *)
(* JSON values are modelled as tokens: "undefined", "null", "false",       *)
(* "true", "obj".  An optional number (nbformat.ExecutionCount) is a       *)
(* sequence: <<>> is null and <<n>> is the number n.  A string that the    *)
(* code inspects character by character (the cell's source) is a sequence  *)
(* of one-character strings.                                               *)
(***************************************************************************)
EXTENDS Integers, Sequences, FiniteSets, TLC

(***************************************************************************)
(* Bounds of the model.                                                    *)
(***************************************************************************)
\* The number of CodeCell.execute calls made on the cell.
MaxCalls == 2
\* Execution counts a kernel reply may carry: 1..MaxCount.
MaxCount == 2
\* The number of outputs streamed into the record's outputs collection.
MaxOutputs == 1

VARIABLES
    \* ---- the record shared through the datastore (CellData.SCHEMA)
    source,              \* field 'text' of the editor model: cell.editor.model.value
    executionCount,      \* field 'executionCount': <<>> (null) or <<n>>
    trusted,             \* field 'trusted'
    outputs,             \* the outputs collection of the record
    \* ---- the CodeCell widget
    prompt,              \* the input prompt's text (Cell.setPrompt)
    inputHidden,         \* Cell._inputHidden
    outputHidden,        \* CodeCell._outputHidden
    outputWrapperHidden, \* CodeCell._outputWrapper.isHidden
    inputWrapperLayout,  \* the widgets of Cell._inputWrapper's layout, in order
    outputWrapperLayout, \* the widgets of CodeCell._outputWrapper's layout, in order
    \* ---- the output region and the kernel transport
    future,              \* cell.outputArea.future: 0 (none) or the id of a request
    requests,            \* the execute requests submitted, in order; a future's id is its index
    \* ---- the execute calls, in the order they were made
    calls,
    \* ---- the cell widgets bound to one record (a cell and its clone)
    readOnly,            \* Cell._readOnly of each widget
    syncEditable,        \* Cell._syncEditable of each widget
    metadata,            \* field 'metadata' of the record: key -> JSON value
    writes,              \* the metadata updates committed by the last operation, in order
    lastOp,              \* the last operation made on a widget: its name and the widget
    kind,                \* the concrete class of each widget; "none" before it is constructed
    data,                \* Cell._data of each widget: the record it is bound to, or "null"
    contentFactory,      \* Cell.contentFactory of each widget
    isDisposed,          \* Widget.isDisposed of each widget
    listeners,           \* the field subscriptions the store holds: <<widget, field>>
    released,            \* how many times each subscription's handle was disposed
    viewPrompt,          \* the input prompt's text of each widget
    markdown,            \* the MarkdownCell fields of each widget
    \* ---- the collapse and scroll state of the code cell widget
    syncCollapse,        \* Cell._syncCollapse
    syncScrolled,        \* CodeCell._syncScrolled
    outputsScrolled      \* CodeCell._outputsScrolled: "undefined" until assigned

execVars == <<source, executionCount, trusted, outputs, prompt, inputHidden,
              outputHidden, outputWrapperHidden, future, requests, calls>>

layoutVars == <<inputWrapperLayout, outputWrapperLayout>>

editVars == <<readOnly, syncEditable, metadata, writes, lastOp>>

\* The variables an operation of CodeCell.execute's widget leaves alone, and
\* those an operation on the editable state leaves alone.
lifeVars == <<kind, data, contentFactory, isDisposed, listeners, released>>

syncVars == <<syncCollapse, syncScrolled, outputsScrolled>>

notExecVars == <<editVars, lifeVars, viewPrompt, markdown, syncVars>>
notEditVars == <<execVars, layoutVars, lifeVars, syncVars>>

vars == <<execVars, layoutVars, editVars, lifeVars, viewPrompt, markdown, syncVars>>

(***************************************************************************)
(* Values.                                                                 *)
(***************************************************************************)
Null == <<>>
Some(n) == <<n>>

\* The id of the record the cell is bound to (cell.data.record.record).
RecordId == "data"

IsWhitespace(ch) == ch \in {" ", "\t", "\n"}

\* The source texts the editor is given: empty, white space only, code, and
\* code surrounded by white space.
Sources == { <<>>, <<" ", "\n">>, <<"x">>, <<" ", "x", "\t">> }

\* String.prototype.trim: leading and trailing white space removed.
RECURSIVE TrimLeft(_)
TrimLeft(s) ==
    IF s = <<>> THEN s
    ELSE IF IsWhitespace(Head(s)) THEN TrimLeft(Tail(s)) ELSE s

RECURSIVE TrimRight(_)
TrimRight(s) ==
    IF s = <<>> THEN s
    ELSE IF IsWhitespace(s[Len(s)]) THEN TrimRight(SubSeq(s, 1, Len(s) - 1)) ELSE s

Trim(s) == TrimRight(TrimLeft(s))

\* The caller's optional metadata argument of execute: a set of <<key, value>>
\* pairs, one value per key.
CallerMetadata == { {}, {<<"cellId", "other">>}, {<<"tag", "t">>} }

\* { ...a, ...b }: the keys of b override those of a.
Spread(a, b) ==
    {p \in a : \A q \in b : q[1] # p[1]} \cup b

\* A panel layout: the widget is taken out of it, is put at its end, is in it.
Detach(layout, w) == SelectSeq(layout, LAMBDA x : x # w)
AddWidget(layout, w) == Append(Detach(layout, w), w)
Attached(layout, w) == \E i \in 1..Len(layout) : layout[i] = w

\* The wrappers' layouts as the constructors build them (lines 202-203,
\* 746-747).
InputWrapperLayout == <<"collapser", "input">>
OutputWrapperLayout == <<"collapser", "output">>

\* The error messages the transport rejects an execution with.
CANCELED == "Canceled"
Errors == {CANCELED, "Kernel died"}

NoMsg == [parent |-> 0, execution_count |-> 0]

\* The prompt text of a template literal `${n}`.
PromptOfCount(n) == ToString(n)

\* A variant of OnExecutionCountChanged whose test is inverted.
OnExecutionCountChangedInverted(p, current) ==
    IF current = Null THEN "null" ELSE p

\* A variant of OnExecutionCountChanged that clears the prompt on null.
OnExecutionCountChangedClears(p, current) ==
    IF current # Null THEN PromptOfCount(current[1]) ELSE ""

\* CodeCell.onExecutionCountChanged: the prompt after a change notification of
\* field executionCount whose current value is `current`.
OnExecutionCountChanged(p, current) ==
    IF current # Null THEN PromptOfCount(current[1]) ELSE p

\* A variant of HandleInputHidden that hides the wrapper whenever the input
\* is hidden, whatever the output's state.
HandleInputHiddenAlways(value, oHidden, wHidden) ==
    IF ~value /\ wHidden THEN FALSE
    ELSE IF value /\ ~wHidden THEN TRUE
    ELSE wHidden

\* `${executionCount || ''}`: the prompt initializeState sets.
InitialPrompt(count) == IF count = Null THEN "" ELSE PromptOfCount(count[1])

(***************************************************************************)
(* Cell: the editable state of the widgets bound to one record.  A change  *)
(* committed to the record's metadata is reported, when its transaction    *)
(* ends, to the metadata listener of every widget, in the order the        *)
(* widgets were constructed; a listener may itself write.                  *)
(***************************************************************************)

\* The widgets: a cell and the clone made of it by clone().
Cells == {"cell", "clone"}
ListenerOrder == <<"cell", "clone">>

\* The concrete classes of cell widget.
Kinds == {"Cell", "CodeCell", "MarkdownCell", "RawCell"}

\* The content factory: options.contentFactory || Cell.defaultContentFactory.
ContentFactories == {"default", "custom"}

\* The record fields a widget of class k subscribes to in its constructors.
ListenedFields(k) ==
    {"metadata"} \cup (IF k = "CodeCell" THEN {"executionCount"} ELSE {})
                 \cup (IF k = "MarkdownCell" THEN {"text"} ELSE {})

Fields == {"metadata", "executionCount", "text"}

\* A widget that was constructed and not disposed of.
Live(c) == kind[c] # "none" /\ ~isDisposed[c]

\* The placeholder a MarkdownCell renders for an empty source:
\* 'Type Markdown and LaTeX: $ α^2 $'
DEFAULT_MARKDOWN_TEXT ==
    <<"T", "y", "p", "e", " ", "M", "a", "r", "k", "d", "o", "w", "n", " ",
      "a", "n", "d", " ", "L", "a", "T", "e", "X", ":", " ", "$", " ", "α",
      "^", "2", " ", "$">>

\* The MarkdownCell fields as their initializers leave them (lines 1289-1295).
\* Beside them: the renderModel calls of the last step (calls), the state of
\* the render the constructor starts (firstRender), how often _ready was
\* resolved (resolves), whether the debouncer's timer runs (debouncing),
\* whether an update-request message is posted (updatePending) and whether
\* the debouncer posted it (fired), what the input area shows (shows), and,
\* of the last burst of text changes (those that found the timer running,
\* and the one before them): its changes and the renders started since it
\* began, both counted to two (burstChanges, burstRenders), and whether the
\* widget has been in rendered mode throughout it (burstMode); and whether
\* the debouncer was disposed of while its timer ran (cancelled).
MarkdownFields ==
    [rendered |-> TRUE, prevText |-> <<>>, renderer |-> "null", calls |-> <<>>,
     firstRender |-> "none", ready |-> "pending", resolves |-> 0,
     debouncing |-> FALSE, updatePending |-> FALSE, fired |-> FALSE,
     shows |-> "editor", burstChanges |-> 0, burstRenders |-> 0, burstMode |-> FALSE,
     cancelled |-> FALSE]

\* A variant of TextToRender without the fallback.
TextToRenderRaw(text) == text

\* text = this.editor.model.value || DEFAULT_MARKDOWN_TEXT (line 1263)
TextToRender(text) == IF text = <<>> THEN DEFAULT_MARKDOWN_TEXT ELSE text

\* A variant of UpdateRenderedInput without the text-equality skip.
UpdateRenderedInputAlways(m, text) ==
    LET tx == TextToRender(text)
    IN  [m EXCEPT !.renderer = "created", !.prevText = tx, !.calls = Append(@, tx),
                  !.burstRenders = IF @ < 2 THEN @ + 1 ELSE @]

\* MarkdownCell._updateRenderedInput (lines 1262-1275): unless the text is
\* the one last rendered, the renderer is created if need be, _prevText is
\* set and renderModel is called with the text.
UpdateRenderedInput(m, text) ==
    LET tx == TextToRender(text)
    IN  IF tx # m.prevText
        THEN [m EXCEPT !.renderer = "created", !.prevText = tx, !.calls = Append(@, tx),
                       !.burstRenders = IF @ < 2 THEN @ + 1 ELSE @]
        ELSE m

\* A variant of HandleRendered without the test of _rendered.
HandleRenderedAlways(m, text) ==
    [UpdateRenderedInput(m, text) EXCEPT
        !.shows = IF m.rendered THEN "rendered" ELSE "editor"]

\* MarkdownCell._handleRendered (lines 1248-1257)
HandleRendered(m, text) ==
    IF ~m.rendered THEN [m EXCEPT !.shows = "editor"]
    ELSE [UpdateRenderedInput(m, text) EXCEPT !.shows = "rendered"]

\* A variant of MarkdownConstructor that resolves _ready at once.
MarkdownConstructorReadyAtOnce(text) ==
    [UpdateRenderedInput(MarkdownFields, text) EXCEPT
        !.firstRender = "pending", !.shows = "rendered",
        !.ready = "resolved", !.resolves = 1]

\* The MarkdownCell constructor (lines 1173-1176): the first render is
\* started, _ready waits for it, and the input area shows the renderer.
MarkdownConstructor(text) ==
    [UpdateRenderedInput(MarkdownFields, text) EXCEPT
        !.firstRender = "pending", !.shows = "rendered"]

\* A variant of DebouncerInvoke that also runs the callback at once, on the
\* leading edge.
DebouncerInvokeLeading(m) ==
    [m EXCEPT !.debouncing = TRUE,
              !.updatePending = @ \/ m.rendered,
              !.burstChanges = IF m.debouncing THEN 2 ELSE 1,
              !.burstRenders = IF m.debouncing THEN @ ELSE 0,
              !.burstMode = IF m.debouncing THEN @ ELSE m.rendered]

\* this._debouncer.invoke() (line 1170): the timer is started, or started
\* anew when it runs.  A change that finds no timer running begins a burst.
DebouncerInvoke(m) ==
    [m EXCEPT !.debouncing = TRUE,
              !.burstChanges = IF m.debouncing THEN 2 ELSE 1,
              !.burstRenders = IF m.debouncing THEN @ ELSE 0,
              !.burstMode = IF m.debouncing THEN @ ELSE m.rendered]

\* The debouncer's callback (lines 1162-1166), run when the timer elapses:
\* if (this._rendered) this.update()
DebouncerCallback(m) ==
    IF m.rendered THEN [m EXCEPT !.debouncing = FALSE, !.updatePending = TRUE, !.fired = TRUE]
    ELSE [m EXCEPT !.debouncing = FALSE]

\* A variant of DebouncerDispose that leaves a running timer alone.
DebouncerDisposeKeepsTimer(m) == m

\* this._debouncer.dispose() (line 1216): a running timer is cancelled.
DebouncerDispose(m) ==
    [m EXCEPT !.debouncing = FALSE, !.cancelled = m.debouncing]

\* A variant of MarkdownDispose that leaves the debouncer alone.
MarkdownDisposeKeepsDebouncer(m) ==
    [m EXCEPT !.updatePending = FALSE, !.fired = FALSE]

\* MarkdownCell.dispose past the isDisposed test (lines 1214-1217): the
\* debouncer is disposed of, and super.dispose() drops the messages posted to
\* the widget.  The text listener is released through DisposeReleases.
MarkdownDispose(m) ==
    [DebouncerDispose(m) EXCEPT !.updatePending = FALSE, !.fired = FALSE]

\* set rendered(value), after the test for the current value (lines
\* 1201-1208): _handleRendered(), and the editor is refreshed when shown.
SetRenderedOp(m, value, text) ==
    LET m1 == [m EXCEPT !.rendered = value,
                        !.burstMode = @ /\ value]
    IN  HandleRendered(m1, text)

\* MarkdownCell.onUpdateRequest (lines 1239-1243): _handleRendered(), then
\* Cell.onUpdateRequest, which sets the editor's readOnly option.
OnUpdateRequest(m, text) ==
    [HandleRendered(m, text) EXCEPT !.updatePending = FALSE, !.fired = FALSE]

\* The kind-specific fields of a widget of class k constructed on a record
\* whose text is `text`.
Constructed(k, text) ==
    IF k = "MarkdownCell" THEN MarkdownConstructor(text) ELSE MarkdownFields

\* The subscriptions dispose() releases for a widget of class k, the
\* subclass's own and, through super.dispose(), the metadata one.
DisposeReleasesOwn(k) == ListenedFields(k) \ {"metadata"}
DisposeReleases(k) == ListenedFields(k)

\* The private fields of Cell as their initializers leave them (lines 563-571).
CellFields == [readOnly |-> FALSE, syncEditable |-> FALSE]

\* The metadata keys modelled and the values a document gives them.
MetaKeys == {"editable", "jupyter"}
\* The keys a code cell reads besides.
CodeMetaKeys == MetaKeys \cup {"collapsed", "scrolled"}
MetaValues(k) == CASE k = "editable" -> {"undefined", "false", "true"}
                   [] k = "collapsed" -> {"undefined", "true"}
                   [] k = "scrolled" -> {"undefined", "true", "auto"}
                   [] OTHER -> {"undefined", "obj"}

\* JavaScript's truthiness of a JSON value.
Truthy(v) == v \notin {"undefined", "null", "false"}

\* What a map field holds for a key after an update to `value`: null removes it.
Stored(value) == IF value = "null" THEN "undefined" ELSE value

\* args.current[k] of a change that reports key change.key.
ChangeCurrent(change, k) == IF change.key = k THEN change.current ELSE "undefined"

\* A variant of EditableValue that writes the boolean !readOnly.
EditableValueBoolean(isReadOnly) == IF isReadOnly THEN "false" ELSE "true"

\* The value saveEditableState writes to metadata key editable.
EditableValue(isReadOnly) == IF isReadOnly THEN "false" ELSE "null"

\* A variant of EditableMatches that compares the absent key with null.
EditableMatchesNull(isReadOnly, current) ==
    (isReadOnly /\ current = "false") \/ (~isReadOnly /\ current = "null")

\* saveEditableState's guard: the view already matches the model.
EditableMatches(isReadOnly, current) ==
    (isReadOnly /\ current = "false") \/ (~isReadOnly /\ current = "undefined")

\* The test of onMetadataChanged for key editable: if (args.current['editable'])
ReportsEditable(change) == Truthy(ChangeCurrent(change, "editable"))

\* A variant of LoadCollapseStateOp that takes the output's hidden state from
\* key collapsed.
LoadCollapseStateFromMetadata(st, c) ==
    [st EXCEPT !.outputHidden = Truthy(st.metadata["collapsed"])]

\* Cell.loadCollapseState (lines 431-434) and CodeCell.loadCollapseState
\* (lines 867-870): the bodies are comments, nothing is done.
LoadCollapseStateOp(st, c) == st

\* A variant of SaveCollapseStateOp that writes key collapsed.
SaveCollapseStateToMetadata(st, c) ==
    [st EXCEPT !.metadata["collapsed"] = IF st.outputHidden THEN "true" ELSE "undefined"]

\* Cell.saveCollapseState (lines 396-426) and CodeCell.saveCollapseState
\* (lines 825-859): the bodies are comments, nothing is done.
SaveCollapseStateOp(st, c) == st

\* CodeCell.loadScrolledState (lines 917-926): the body is a comment.
LoadScrolledStateOp(st, c) == st

\* CodeCell.saveScrolledState (lines 889-912): the body is a comment.
SaveScrolledStateOp(st, c) == st

\* set outputsScrolled(value), lines 878-884: no test for the current value.
SetOutputsScrolledOp(st, c, value) ==
    LET st1 == [st EXCEPT !.outputsScrolled = value]
    IN  IF st1.syncScrolled THEN SaveScrolledStateOp(st1, c) ELSE st1

\* set syncCollapse(value), lines 454-462
SetSyncCollapseOp(st, c, value) ==
    IF st.syncCollapse = value THEN st
    ELSE LET st1 == [st EXCEPT !.syncCollapse = value]
         IN  IF value THEN LoadCollapseStateOp(st1, c) ELSE st1

\* set syncScrolled(value), lines 934-942
SetSyncScrolledOp(st, c, value) ==
    IF st.syncScrolled = value THEN st
    ELSE LET st1 == [st EXCEPT !.syncScrolled = value]
         IN  IF value THEN LoadScrolledStateOp(st1, c) ELSE st1

\* The part of CodeCell.onMetadataChanged before super's (lines 1021-1034).
\* _savingMetadata is false: only saveCollapseState's body assigns it.
CodeOnMetadataChanged(st, c, change) ==
    LET st1 == IF Truthy(ChangeCurrent(change, "scrolled")) /\ st.syncScrolled
               THEN LoadScrolledStateOp(st, c) ELSE st
    IN  IF Truthy(ChangeCurrent(change, "collapsed")) /\ st1.syncCollapse
        THEN LoadCollapseStateOp(st1, c) ELSE st1

RECURSIVE SetReadOnlyOp(_, _, _)
RECURSIVE SaveEditableStateOp(_, _, _)
RECURSIVE LoadEditableStateOp(_, _)
RECURSIVE OnMetadataChangedOp(_, _, _)
RECURSIVE Notify(_, _, _)
RECURSIVE UpdateMetadata(_, _, _, _, _)

\* DatastoreExt.withTransaction(... updateField(metadata, { key: value })):
\* the update is committed and then reported to the listeners.
UpdateMetadata(st, writer, key, value, origin) ==
    LET entry == [writer |-> writer, key |-> key, value |-> value, origin |-> origin,
                  readOnly |-> IF writer \in Cells THEN st.readOnly[writer] ELSE FALSE,
                  sync |-> IF writer \in Cells THEN st.syncEditable[writer] ELSE FALSE]
        st1 == [st EXCEPT !.metadata[key] = Stored(value), !.writes = Append(@, entry)]
    IN  Notify(st1, [key |-> key, current |-> Stored(value)], 1)

Notify(st, change, i) ==
    IF i > Len(ListenerOrder) THEN st
    ELSE IF <<ListenerOrder[i], "metadata">> \in listeners
         THEN Notify(OnMetadataChangedOp(st, ListenerOrder[i], change), change, i + 1)
         ELSE Notify(st, change, i + 1)

\* onMetadataChanged of widget c: CodeCell's part first for a code cell, then
\* Cell.onMetadataChanged (lines 547-561).  The collapse and scroll state is
\* kept for the code cell widget "cell".
OnMetadataChangedOp(st, c, change) ==
    LET st1 == IF kind[c] = "CodeCell" /\ c = "cell"
               THEN CodeOnMetadataChanged(st, c, change) ELSE st
        st2 == IF Truthy(ChangeCurrent(change, "jupyter")) /\ c = "cell" /\ st1.syncCollapse
               THEN LoadCollapseStateOp(st1, c) ELSE st1
    IN  IF ReportsEditable(change) /\ st2.syncEditable[c]
        THEN LoadEditableStateOp(st2, c)
        ELSE st2

\* set readOnly(value)
SetReadOnlyOp(st, c, value) ==
    IF value = st.readOnly[c] THEN st
    ELSE LET st1 == [st EXCEPT !.readOnly[c] = value]
             st2 == IF st1.syncEditable[c] THEN SaveEditableStateOp(st1, c, "setter") ELSE st1
         IN  [st2 EXCEPT !.updated = @ \cup {c}]

\* Cell.saveEditableState, called from `origin`.
SaveEditableStateOp(st, c, origin) ==
    IF EditableMatches(st.readOnly[c], st.metadata["editable"]) THEN st
    ELSE UpdateMetadata(st, c, "editable", EditableValue(st.readOnly[c]), origin)

\* A variant of LoadEditableStateOp that takes every falsy value of editable,
\* the absent key included, for read-only.
LoadEditableStateFalsy(st, c) ==
    SetReadOnlyOp(st, c, ~Truthy(st.metadata["editable"]))

\* Cell.loadEditableState: this.readOnly = metadata['editable'] === false
LoadEditableStateOp(st, c) ==
    SetReadOnlyOp(st, c, st.metadata["editable"] = "false")

\* The state an operation starts from; the log of its writes starts empty.
CurrentState ==
    [readOnly |-> readOnly, syncEditable |-> syncEditable, metadata |-> metadata,
     writes |-> <<>>, updated |-> {},
     inputHidden |-> inputHidden, outputHidden |-> outputHidden,
     syncCollapse |-> syncCollapse, syncScrolled |-> syncScrolled,
     outputsScrolled |-> outputsScrolled]

\* this.update() posts an update-request message to the widget, and several
\* posted before it is processed are one; the MarkdownCell's is followed,
\* the other classes' only sets the editor's readOnly option.  The
\* renderModel calls of the previous step are forgotten.
PostUpdates(updated) ==
    [c \in Cells |->
        IF c \in updated /\ kind[c] = "MarkdownCell"
        THEN [markdown[c] EXCEPT !.calls = <<>>, !.updatePending = TRUE]
        ELSE [markdown[c] EXCEPT !.calls = <<>>]]

\* set syncEditable(value)
SetSyncEditableOp(st, c, v) ==
    IF st.syncEditable[c] = v THEN st
    ELSE LET st1 == [st EXCEPT !.syncEditable[c] = v]
         IN  IF v THEN LoadEditableStateOp(st1, c) ELSE st1

\* cell.readOnly = v
SetReadOnly(c, v) ==
    /\ Live(c)
    /\ LET st == SetReadOnlyOp(CurrentState, c, v)
       IN  /\ readOnly' = st.readOnly
           /\ syncEditable' = st.syncEditable
           /\ metadata' = st.metadata
           /\ writes' = st.writes
           /\ markdown' = PostUpdates(st.updated)
           /\ lastOp' = [op |-> "readOnly", cell |-> c]
           /\ UNCHANGED <<notEditVars, viewPrompt>>

\* cell.syncEditable = v
SetSyncEditable(c, v) ==
    /\ Live(c)
    /\ LET st == SetSyncEditableOp(CurrentState, c, v)
       IN  /\ readOnly' = st.readOnly
           /\ syncEditable' = st.syncEditable
           /\ metadata' = st.metadata
           /\ writes' = st.writes
           /\ markdown' = PostUpdates(st.updated)
           /\ lastOp' = [op |-> "syncEditable", cell |-> c]
           /\ UNCHANGED <<notEditVars, viewPrompt>>

\* cell.saveEditableState()
SaveEditableState(c) ==
    /\ Live(c)
    /\ LET st == SaveEditableStateOp(CurrentState, c, "save")
       IN  /\ readOnly' = st.readOnly
           /\ syncEditable' = st.syncEditable
           /\ metadata' = st.metadata
           /\ writes' = st.writes
           /\ markdown' = PostUpdates(st.updated)
           /\ lastOp' = [op |-> "saveEditableState", cell |-> c]
           /\ UNCHANGED <<notEditVars, viewPrompt>>

\* cell.loadEditableState()
LoadEditableState(c) ==
    /\ Live(c)
    /\ LET st == LoadEditableStateOp(CurrentState, c)
       IN  /\ readOnly' = st.readOnly
           /\ syncEditable' = st.syncEditable
           /\ metadata' = st.metadata
           /\ writes' = st.writes
           /\ markdown' = PostUpdates(st.updated)
           /\ lastOp' = [op |-> "loadEditableState", cell |-> c]
           /\ UNCHANGED <<notEditVars, viewPrompt>>

\* initializeState(): Cell's does loadCollapseState and loadEditableState;
\* CodeCell's then does loadScrolledState and
\* setPrompt(`${executionCount || ''}`).
InitializeState(c) ==
    /\ Live(c)
    /\ LET st0 == LoadEditableStateOp(
                     IF c = "cell" THEN LoadCollapseStateOp(CurrentState, c)
                     ELSE CurrentState, c)
           st  == IF kind[c] = "CodeCell" /\ c = "cell"
                  THEN LoadScrolledStateOp(st0, c) ELSE st0
       IN  /\ inputHidden' = st.inputHidden
           /\ outputHidden' = st.outputHidden
           /\ outputsScrolled' = st.outputsScrolled
           /\ readOnly' = st.readOnly
           /\ syncEditable' = st.syncEditable
           /\ metadata' = st.metadata
           /\ writes' = st.writes
           /\ markdown' = PostUpdates(st.updated)
           /\ viewPrompt' = IF kind[c] = "CodeCell"
                               THEN [viewPrompt EXCEPT ![c] = InitialPrompt(executionCount)]
                               ELSE viewPrompt
           /\ lastOp' = [op |-> "initializeState", cell |-> c]
           /\ UNCHANGED <<source, executionCount, trusted, outputs, prompt,
                          outputWrapperHidden, future, requests, calls, layoutVars,
                          lifeVars, syncCollapse, syncScrolled>>

\* A writer that is no cell widget updates a key of the record's metadata.
ExternalUpdate(key, value) ==
    LET st == UpdateMetadata(CurrentState, "external", key, value, "external")
    IN  /\ readOnly' = st.readOnly
        /\ syncEditable' = st.syncEditable
        /\ metadata' = st.metadata
        /\ writes' = st.writes
        /\ markdown' = PostUpdates(st.updated)
        /\ lastOp' = [op |-> "update", cell |-> "external"]
        /\ inputHidden' = st.inputHidden
        /\ outputHidden' = st.outputHidden
        /\ outputsScrolled' = st.outputsScrolled
        /\ UNCHANGED <<source, executionCount, trusted, outputs, prompt,
                       outputWrapperHidden, future, requests, calls, layoutVars,
                       lifeVars, syncCollapse, syncScrolled, viewPrompt>>

\* codeCell.syncCollapse = v
SetSyncCollapse(v) ==
    /\ Live("cell")
    /\ LET st == SetSyncCollapseOp(CurrentState, "cell", v)
       IN  /\ syncCollapse' = st.syncCollapse
           /\ inputHidden' = st.inputHidden
           /\ outputHidden' = st.outputHidden
           /\ metadata' = st.metadata
           /\ writes' = st.writes
    /\ markdown' = PostUpdates({})
    /\ lastOp' = [op |-> "syncCollapse", cell |-> "cell"]
    /\ UNCHANGED <<source, executionCount, trusted, outputs, prompt,
                   outputWrapperHidden, future, requests, calls, layoutVars,
                   readOnly, syncEditable, lifeVars, viewPrompt, syncScrolled,
                   outputsScrolled>>

\* codeCell.syncScrolled = v
SetSyncScrolled(v) ==
    /\ Live("cell") /\ kind["cell"] = "CodeCell"
    /\ LET st == SetSyncScrolledOp(CurrentState, "cell", v)
       IN  /\ syncScrolled' = st.syncScrolled
           /\ outputsScrolled' = st.outputsScrolled
           /\ metadata' = st.metadata
           /\ writes' = st.writes
    /\ markdown' = PostUpdates({})
    /\ lastOp' = [op |-> "syncScrolled", cell |-> "cell"]
    /\ UNCHANGED <<execVars, layoutVars, readOnly, syncEditable, lifeVars, viewPrompt,
                   syncCollapse>>

\* codeCell.outputsScrolled = v
SetOutputsScrolled(v) ==
    /\ Live("cell") /\ kind["cell"] = "CodeCell"
    /\ LET st == SetOutputsScrolledOp(CurrentState, "cell", v)
       IN  /\ outputsScrolled' = st.outputsScrolled
           /\ metadata' = st.metadata
           /\ writes' = st.writes
    /\ markdown' = PostUpdates({})
    /\ lastOp' = [op |-> "outputsScrolled", cell |-> "cell"]
    /\ UNCHANGED <<execVars, layoutVars, readOnly, syncEditable, lifeVars, viewPrompt,
                   syncCollapse, syncScrolled>>

\* A writer that is no cell widget sets the executionCount of a code cell's
\* record: each subscribed widget's onExecutionCountChanged runs.
ExternalExecutionCount(count) ==
    /\ kind["cell"] = "CodeCell"
    /\ count # executionCount
    /\ executionCount' = count
    /\ viewPrompt' = [c \in Cells |->
                         IF <<c, "executionCount">> \in listeners
                         THEN OnExecutionCountChanged(viewPrompt[c], count)
                         ELSE viewPrompt[c]]
    /\ markdown' = PostUpdates({})
    /\ writes' = <<>>
    /\ lastOp' = [op |-> "executionCount", cell |-> "external"]
    /\ UNCHANGED <<syncVars, source, trusted, outputs, prompt, inputHidden, outputHidden,
                   outputWrapperHidden, future, requests, calls, layoutVars,
                   readOnly, syncEditable, metadata, lifeVars>>

\* The text of a markdown cell's record changes: each subscribed widget's
\* listener invokes its debouncer.
TextChanged(s) ==
    /\ kind["cell"] = "MarkdownCell"
    /\ s # source
    /\ source' = s
    /\ markdown' = [c \in Cells |->
                       IF <<c, "text">> \in listeners
                       THEN DebouncerInvoke([markdown[c] EXCEPT !.calls = <<>>])
                       ELSE [markdown[c] EXCEPT !.calls = <<>>]]
    /\ writes' = <<>>
    /\ lastOp' = [op |-> "text", cell |-> "external"]
    /\ UNCHANGED <<syncVars, executionCount, trusted, outputs, prompt, inputHidden, outputHidden,
                   outputWrapperHidden, future, requests, calls, layoutVars,
                   readOnly, syncEditable, metadata, lifeVars, viewPrompt>>

\* A variant of CloneOptions that passes no options, so that the constructor
\* makes a record and takes the default content factory.
CloneOptionsNone(c) ==
    [constructor |-> kind[c], data |-> "fresh", contentFactory |-> "default"]

\* clone(): the constructor and the options it is called with.
CloneOptions(c) ==
    [constructor |-> kind[c], data |-> data[c], contentFactory |-> contentFactory[c]]

\* cell.clone(): new constructor({ data, contentFactory }); the constructors
\* leave the private fields at their initializers and subscribe to the
\* record's fields.
Clone(c) ==
    /\ Live(c)
    /\ kind["clone"] = "none"
    /\ kind' = [kind EXCEPT !["clone"] = CloneOptions(c).constructor]
    /\ data' = [data EXCEPT !["clone"] = CloneOptions(c).data]
    /\ contentFactory' = [contentFactory EXCEPT !["clone"] = CloneOptions(c).contentFactory]
    /\ readOnly' = [readOnly EXCEPT !["clone"] = CellFields.readOnly]
    /\ syncEditable' = [syncEditable EXCEPT !["clone"] = CellFields.syncEditable]
    /\ listeners' = listeners \cup
                        {<<"clone", f>> : f \in ListenedFields(CloneOptions(c).constructor)}
    /\ markdown' = [PostUpdates({}) EXCEPT
                       !["clone"] = Constructed(CloneOptions(c).constructor, source)]
    /\ viewPrompt' = [viewPrompt EXCEPT !["clone"] = ""]
    /\ writes' = <<>>
    /\ lastOp' = [op |-> "clone", cell |-> c]
    /\ UNCHANGED <<syncVars, execVars, layoutVars, metadata, isDisposed, released>>

\* cell.dispose(): nothing if already disposed; else the subclass's
\* subscriptions and the metadata one are released, a MarkdownCell's
\* debouncer is disposed of, the references are nulled, and Widget.dispose
\* marks the widget disposed and drops the messages posted to it.
Dispose(c) ==
    /\ kind[c] # "none"
    /\ IF isDisposed[c]
       THEN /\ markdown' = PostUpdates({})
            /\ UNCHANGED <<data, isDisposed, listeners, released>>
       ELSE /\ listeners' = listeners \ {<<c, f>> : f \in DisposeReleases(kind[c])}
            /\ released' = [p \in DOMAIN released |->
                               IF p[1] = c /\ p[2] \in DisposeReleases(kind[c])
                               THEN released[p] + 1 ELSE released[p]]
            /\ data' = [data EXCEPT ![c] = "null"]
            /\ isDisposed' = [isDisposed EXCEPT ![c] = TRUE]
            /\ markdown' = [PostUpdates({}) EXCEPT
                               ![c] = IF kind[c] = "MarkdownCell"
                                         THEN MarkdownDispose(PostUpdates({})[c])
                                         ELSE @]
    /\ writes' = <<>>
    /\ lastOp' = [op |-> "dispose", cell |-> c]
    /\ UNCHANGED <<syncVars, execVars, layoutVars, readOnly, syncEditable, metadata, kind,
                   contentFactory, viewPrompt>>

\* markdownCell.rendered = v; nothing when v is the current value.
SetRendered(c, v) ==
    /\ Live(c) /\ kind[c] = "MarkdownCell"
    /\ v # markdown[c].rendered
    /\ markdown' = [PostUpdates({}) EXCEPT
                       ![c] = SetRenderedOp(PostUpdates({})[c], v, source)]
    /\ writes' = <<>>
    /\ lastOp' = [op |-> "rendered", cell |-> c]
    /\ UNCHANGED <<syncVars, execVars, layoutVars, readOnly, syncEditable, metadata, lifeVars,
                   viewPrompt>>

\* The timer of the widget's debouncer elapses.
DebounceElapsed(c) ==
    /\ markdown[c].debouncing
    /\ markdown' = [PostUpdates({}) EXCEPT ![c] = DebouncerCallback(PostUpdates({})[c])]
    /\ writes' = <<>>
    /\ lastOp' = [op |-> "elapsed", cell |-> c]
    /\ UNCHANGED <<syncVars, execVars, layoutVars, readOnly, syncEditable, metadata, lifeVars,
                   viewPrompt>>

\* The update-request message posted to the widget is processed.
UpdateRequest(c) ==
    /\ Live(c) /\ markdown[c].updatePending
    /\ markdown' = [PostUpdates({}) EXCEPT
                       ![c] = OnUpdateRequest(PostUpdates({})[c], source)]
    /\ writes' = <<>>
    /\ lastOp' = [op |-> "updateRequest", cell |-> c]
    /\ UNCHANGED <<syncVars, execVars, layoutVars, readOnly, syncEditable, metadata, lifeVars,
                   viewPrompt>>

\* The render the constructor started completes: its promise resolves when
\* ok, and then _ready is resolved (line 1174); it rejects otherwise.
FirstRenderSettled(c, ok) ==
    /\ kind[c] = "MarkdownCell" /\ markdown[c].firstRender = "pending"
    /\ markdown' = [PostUpdates({}) EXCEPT
                       ![c].firstRender = IF ok THEN "done" ELSE "failed",
                       ![c].ready = IF ok THEN "resolved" ELSE @,
                       ![c].resolves = IF ok THEN @ + 1 ELSE @]
    /\ writes' = <<>>
    /\ lastOp' = [op |-> "rendered first", cell |-> c]
    /\ UNCHANGED <<syncVars, execVars, layoutVars, readOnly, syncEditable, metadata, lifeVars,
                   viewPrompt>>

\* A Cell and its clone just constructed on a record (the private fields'
\* initializers); the record may come from a document, where editable is
\* absent, false or true.  The code cell's state is that of InitExecute.
InitEditable ==
    /\ readOnly = [c \in Cells |-> FALSE]
    /\ syncEditable = [c \in Cells |-> FALSE]
    /\ metadata \in {m \in [MetaKeys -> {"undefined", "false", "true", "obj"}] :
                       \A k \in MetaKeys : m[k] \in MetaValues(k)}
    /\ writes = <<>>
    /\ lastOp = [op |-> "new", cell |-> "cell"]
    /\ kind = [c \in Cells |-> "Cell"]
    /\ data = [c \in Cells |-> RecordId]
    /\ contentFactory = [c \in Cells |-> "default"]
    /\ isDisposed = [c \in Cells |-> FALSE]
    /\ listeners = {<<c, "metadata">> : c \in Cells}
    /\ released = [p \in Cells \X Fields |-> 0]
    /\ viewPrompt = [c \in Cells |-> ""]
    /\ syncCollapse = FALSE
    /\ syncScrolled = FALSE
    /\ outputsScrolled = "undefined"
    /\ markdown = [c \in Cells |-> MarkdownFields]
    /\ source = <<>>
    /\ executionCount = Null
    /\ trusted = FALSE
    /\ outputs = <<>>
    /\ prompt = ""
    /\ inputHidden = FALSE
    /\ outputHidden = FALSE
    /\ outputWrapperHidden = FALSE
    /\ inputWrapperLayout = InputWrapperLayout
    /\ outputWrapperLayout = OutputWrapperLayout
    /\ future = 0
    /\ requests = <<>>
    /\ calls = <<>>

(***************************************************************************)
(* CodeCell: the prompt and the collapse view state.                       *)
(***************************************************************************)

\* set outputHidden: the wrapper's isHidden after the assignment.
OutputHiddenSetterWrapper(value, oHidden, iHidden, wHidden) ==
    IF oHidden = value THEN wHidden
    ELSE IF value THEN (IF iHidden /\ ~wHidden THEN TRUE ELSE wHidden)
         ELSE (IF wHidden THEN FALSE ELSE wHidden)

\* CodeCell.handleInputHidden: the wrapper's isHidden after the input was
\* hidden (value) or shown.
HandleInputHidden(value, oHidden, wHidden) ==
    IF ~value /\ wHidden THEN FALSE
    ELSE IF value /\ ~wHidden /\ oHidden THEN TRUE
    ELSE wHidden

\* The output area is swapped with its placeholder in the wrapper's layout
\* (lines 801-815): removeWidget detaches, addWidget appends.
OutputHiddenSetterLayout(value, oHidden, layout) ==
    IF oHidden = value THEN layout
    ELSE IF value THEN AddWidget(Detach(layout, "output"), "placeholder")
         ELSE AddWidget(Detach(layout, "placeholder"), "output")

\* A variant of InputHiddenSetterLayout that leaves the placeholder attached
\* when the input is shown again.
InputHiddenSetterKeepsPlaceholder(value, iHidden, layout) ==
    IF iHidden = value THEN layout
    ELSE IF value THEN AddWidget(Detach(layout, "input"), "placeholder")
         ELSE AddWidget(layout, "input")

\* Cell.inputHidden (set), lines 374-384: nothing when the value is the
\* current one; else the input area is swapped with the placeholder
\* (parent = null detaches, addWidget appends).
InputHiddenSetterLayout(value, iHidden, layout) ==
    IF iHidden = value THEN layout
    ELSE IF value THEN AddWidget(Detach(layout, "input"), "placeholder")
         ELSE AddWidget(Detach(layout, "placeholder"), "input")

\* The whole setter of outputHidden: the wrapper's layout and visibility and
\* the flag.
OutputHiddenSetter(value) ==
    [outputWrapperLayout |-> OutputHiddenSetterLayout(value, outputHidden, outputWrapperLayout),
     outputWrapperHidden |->
         OutputHiddenSetterWrapper(value, outputHidden, inputHidden, outputWrapperHidden),
     outputHidden |-> value]

\* The whole setter of inputHidden: the layout, the flag, then
\* handleInputHidden(value) unless the value was the current one.
InputHiddenSetter(value) ==
    [inputWrapperLayout |-> InputHiddenSetterLayout(value, inputHidden, inputWrapperLayout),
     inputHidden |-> value,
     outputWrapperHidden |->
         IF inputHidden = value THEN outputWrapperHidden
         ELSE HandleInputHidden(value, outputHidden, outputWrapperHidden)]

\* The end of both setters (lines 386-389, 816-819): unless the value was
\* the current one, saveCollapseState() when syncCollapse is set.  The
\* record's metadata after an assignment that leaves the flags as given.
MetadataAfterHiddenSet(iHidden, oHidden) ==
    IF syncCollapse /\ <<iHidden, oHidden>> # <<inputHidden, outputHidden>>
    THEN SaveCollapseStateOp([CurrentState EXCEPT !.inputHidden = iHidden,
                                                  !.outputHidden = oHidden],
                             "cell").metadata
    ELSE metadata

\* The variables no assignment of inputHidden or outputHidden touches.
notHiddenVars == <<readOnly, syncEditable, writes, lastOp, lifeVars, viewPrompt, markdown,
                   syncVars>>

SetOutputHidden(value) ==
    LET set == OutputHiddenSetter(value)
    IN  /\ outputWrapperLayout' = set.outputWrapperLayout
        /\ outputWrapperHidden' = set.outputWrapperHidden
        /\ outputHidden' = set.outputHidden
        /\ metadata' = MetadataAfterHiddenSet(inputHidden, set.outputHidden)
        /\ UNCHANGED <<source, executionCount, trusted, outputs, prompt, inputHidden,
                       future, requests, calls, inputWrapperLayout, notHiddenVars>>

SetInputHidden(value) ==
    LET set == InputHiddenSetter(value)
    IN  /\ inputWrapperLayout' = set.inputWrapperLayout
        /\ inputHidden' = set.inputHidden
        /\ outputWrapperHidden' = set.outputWrapperHidden
        /\ metadata' = MetadataAfterHiddenSet(set.inputHidden, outputHidden)
        /\ UNCHANGED <<source, executionCount, trusted, outputs, prompt, outputHidden,
                       future, requests, calls, outputWrapperLayout, notHiddenVars>>

\* The user clicks the input placeholder, which is in the layout while the
\* input is hidden: this.inputHidden = !this.inputHidden (lines 206-208).
InputPlaceholderClicked ==
    /\ Attached(inputWrapperLayout, "placeholder")
    /\ LET set == InputHiddenSetter(~inputHidden)
       IN  /\ inputWrapperLayout' = set.inputWrapperLayout
           /\ inputHidden' = set.inputHidden
           /\ outputWrapperHidden' = set.outputWrapperHidden
           /\ metadata' = MetadataAfterHiddenSet(set.inputHidden, outputHidden)
    /\ UNCHANGED <<source, executionCount, trusted, outputs, prompt, outputHidden,
                   future, requests, calls, outputWrapperLayout, notHiddenVars>>

\* The user clicks the output placeholder, which is in the layout while the
\* output is hidden and can be seen unless the wrapper is hidden:
\* this.outputHidden = !this.outputHidden (lines 751-753).
OutputPlaceholderClicked ==
    /\ Attached(outputWrapperLayout, "placeholder") /\ ~outputWrapperHidden
    /\ LET set == OutputHiddenSetter(~outputHidden)
       IN  /\ outputWrapperLayout' = set.outputWrapperLayout
           /\ outputWrapperHidden' = set.outputWrapperHidden
           /\ outputHidden' = set.outputHidden
           /\ metadata' = MetadataAfterHiddenSet(inputHidden, set.outputHidden)
    /\ UNCHANGED <<source, executionCount, trusted, outputs, prompt, inputHidden,
                   future, requests, calls, inputWrapperLayout, notHiddenVars>>

\* The user edits the source text in the editor of the live widget.
EditSource(s) ==
    /\ Live("cell")
    /\ s # source
    /\ source' = s
    /\ UNCHANGED <<executionCount, trusted, outputs, prompt, inputHidden, outputHidden,
                   outputWrapperHidden, future, requests, calls, layoutVars, notExecVars>>

(***************************************************************************)
(* CodeCell.execute.  An async function runs to its first await in one     *)
(* step (Execute) and resumes, when the awaited promise settles, in        *)
(* another (ExecuteReply, ExecuteReject).                                  *)
(***************************************************************************)

\* The prompt shown while an execution is in flight.
BUSY == "*"

\* A variant of IsEarlyExit that does not trim the source.
IsEarlyExitUntrimmed(code, hasKernel) == code = <<>> \/ ~hasKernel

\* if (!code.trim() || !session.kernel)
IsEarlyExit(code, hasKernel) == Trim(code) = <<>> \/ ~hasKernel

\* The view when the request is handed to the output region:
\* cell.outputHidden = false; cell.setPrompt('*').
ViewBeforeSubmit(p, oHidden, iHidden, wHidden) ==
    [prompt |-> BUSY,
     outputHidden |-> FALSE,
     outputWrapperHidden |-> OutputHiddenSetterWrapper(FALSE, oHidden, iHidden, wHidden)]

\* The record fields written in the transaction before the request:
\* updateRecord({ executionCount: null, trusted: true }).
RecordBeforeSubmit == [executionCount |-> Null, trusted |-> TRUE]

\* A variant of ExecuteCommits with one transaction per field.
ExecuteCommitsPerField(view, rec, wasTrusted) ==
    << [prompt |-> view.prompt, outputHidden |-> view.outputHidden,
        executionCount |-> rec.executionCount, trusted |-> wasTrusted],
       [prompt |-> view.prompt, outputHidden |-> view.outputHidden,
        executionCount |-> rec.executionCount, trusted |-> rec.trusted] >>

\* The states at which the store commits, and so may notify the record's
\* subscribers, between the test for the early exit and the request (lines
\* 1093-1100): the two view assignments come first and write nothing to the
\* record; the one transaction then commits both fields.
ExecuteCommits(view, rec, wasTrusted) ==
    << [prompt |-> view.prompt, outputHidden |-> view.outputHidden,
        executionCount |-> rec.executionCount, trusted |-> rec.trusted] >>

\* OutputArea.execute(code, cell.outputArea, session, meta): the request
\* the output region submits to the kernel.  It becomes the output region's
\* current future; the view it is submitted from is kept with it.
SubmitExecute(code, meta, view) ==
    [cellId |-> CHOOSE v \in {p[2] : p \in {q \in meta : q[1] = "cellId"}} : TRUE,
     promptAtSubmit |-> view.prompt,
     outputHiddenAtSubmit |-> view.outputHidden]

\* A variant of ExecuteOnReply that does not write the reply's count.
ExecuteOnReplyNoWrite(msg) ==
    [executionCount |-> Null, ret |-> msg]

\* The success path: the field write and the value returned.
ExecuteOnReply(msg) ==
    [executionCount |-> Some(msg.execution_count), ret |-> msg]

\* Variants of CatchResetsPrompt: without the comparison of futures, with
\* the comparison negated, and without the test of the message.
CatchResetsOnAnyCancel(e, current, captured) == e = CANCELED
CatchResetsWhenStale(e, current, captured) == e = CANCELED /\ current # captured
CatchResetsOnAnyError(e, current, captured) == current = captured

\* The catch clause's test: e.message === 'Canceled' && cell.outputArea.future === future
CatchResetsPrompt(e, current, captured) ==
    e = CANCELED /\ current = captured

\* A variant of CatchOutcome that absorbs the cancellation it reset the
\* prompt for.
CatchAbsorbsCancel(e, current, captured) ==
    IF e = CANCELED /\ current = captured
    THEN [state |-> "returned", error |-> ""]
    ELSE [state |-> "threw", error |-> e]

\* How the catch clause ends: throw e.
CatchOutcome(e, current, captured) ==
    [state |-> "threw", error |-> e]

\* The error of a property read through a null reference.
TYPE_ERROR == "TypeError"

\* cell.outputArea of the code cell widget: _output, null once CodeCell.dispose
\* has run (line 996).
OutputRef == IF isDisposed["cell"] THEN "null" ELSE "outputArea"

\* Line 1079 reads cell.editor, that is _input.editor; lines 1116-1118 read
\* cell.data.record: a TypeError when the reference is null.
DereferenceFaults(ref) == ref = "null"

\* The catch clause's test reads cell.outputArea.future only when the
\* message is 'Canceled' (&& evaluates its right operand only then).
CatchFaults(e, outputRef) == e = CANCELED /\ DereferenceFaults(outputRef)

NewCall(code, hasKernel) ==
    [blank |-> (Trim(code) = <<>>), hadKernel |-> hasKernel, future |-> 0, state |-> "pending",
     value |-> "none", reply |-> NoMsg, ret |-> NoMsg, rejection |-> "",
     error |-> "", wasCurrent |-> FALSE, commits |-> <<>>]

\* A call of CodeCell.execute(cell, session, metadata), up to its return or
\* its await.
Execute(hasKernel, meta) ==
    /\ Len(calls) < MaxCalls
    /\ LET code == source IN
       IF DereferenceFaults(data["cell"])
       THEN \* the widget was disposed of: reading the editor throws.
            /\ calls' = Append(calls, [NewCall(code, hasKernel) EXCEPT
                                          !.state = "threw", !.error = TYPE_ERROR])
            /\ UNCHANGED <<source, executionCount, trusted, outputs, prompt, inputHidden,
                           outputHidden, outputWrapperHidden, future, requests, layoutVars,
                           notExecVars>>
       ELSE IF IsEarlyExit(code, hasKernel)
       THEN \* executionCount := null and OutputAreaData.clear in one transaction;
            \* the executionCount listener is notified of null.
            /\ executionCount' = Null
            /\ outputs' = <<>>
            /\ prompt' = OnExecutionCountChanged(prompt, Null)
            /\ calls' = Append(calls, [NewCall(code, hasKernel) EXCEPT
                                          !.state = "returned", !.value = "undefined"])
            /\ UNCHANGED <<source, trusted, inputHidden, outputHidden,
                           outputWrapperHidden, future, requests, layoutVars, notExecVars>>
       ELSE LET view == ViewBeforeSubmit(prompt, outputHidden, inputHidden,
                                         outputWrapperHidden)
                rec  == RecordBeforeSubmit
                req  == SubmitExecute(code, Spread(meta, {<<"cellId", RecordId>>}), view)
                f    == Len(requests) + 1
            IN  /\ outputHidden' = view.outputHidden
                /\ outputWrapperHidden' = view.outputWrapperHidden
                /\ executionCount' = rec.executionCount
                /\ trusted' = rec.trusted
                /\ prompt' = OnExecutionCountChanged(view.prompt, rec.executionCount)
                /\ requests' = Append(requests, req)
                /\ future' = f
                /\ calls' = Append(calls, [NewCall(code, hasKernel) EXCEPT
                                              !.future = f,
                                              !.commits = ExecuteCommits(view, rec, trusted)])
                /\ outputWrapperLayout' =
                       OutputHiddenSetterLayout(FALSE, outputHidden, outputWrapperLayout)
                /\ metadata' = MetadataAfterHiddenSet(inputHidden, view.outputHidden)
                /\ UNCHANGED <<source, outputs, inputHidden, inputWrapperLayout,
                               notHiddenVars>>

\* The awaited promise of call c resolves with a reply carrying count n.
\* A write of the value the field already holds may or may not be reported
\* to the field's listeners.
ExecuteReply(c, n) ==
    /\ c \in 1..Len(calls)
    /\ calls[c].state = "pending"
    /\ LET msg == [parent |-> calls[c].future, execution_count |-> n]
           out == ExecuteOnReply(msg)
       IN  IF DereferenceFaults(data["cell"])
           THEN \* the TypeError of cell.data.record is caught; its message is
                \* not 'Canceled', and it is thrown again.
                /\ calls' = [calls EXCEPT ![c] =
                                [@ EXCEPT !.state = "threw", !.error = TYPE_ERROR,
                                          !.reply = msg,
                                          !.wasCurrent = (future = calls[c].future)]]
                /\ UNCHANGED <<executionCount, prompt>>
           ELSE
           /\ executionCount' = out.executionCount
           /\ \E notified \in (IF out.executionCount = executionCount
                                  THEN BOOLEAN ELSE {TRUE}) :
                 prompt' = IF notified
                              THEN OnExecutionCountChanged(prompt, out.executionCount)
                              ELSE prompt
           /\ calls' = [calls EXCEPT ![c] =
                           [@ EXCEPT !.state = "returned", !.value = "msg",
                                     !.reply = msg, !.ret = out.ret,
                                     !.wasCurrent = (future = calls[c].future)]]
    /\ UNCHANGED <<source, trusted, outputs, inputHidden, outputHidden,
                   outputWrapperHidden, future, requests, layoutVars, notExecVars>>

\* The awaited promise of call c rejects with an error whose message is e.
ExecuteReject(c, e) ==
    /\ c \in 1..Len(calls)
    /\ calls[c].state = "pending"
    /\ LET end == CatchOutcome(e, future, calls[c].future)
       IN  IF CatchFaults(e, OutputRef)
           THEN \* the catch clause itself throws the TypeError.
                /\ calls' = [calls EXCEPT ![c] =
                                [@ EXCEPT !.state = "threw", !.error = TYPE_ERROR,
                                          !.rejection = e,
                                          !.wasCurrent = (future = calls[c].future)]]
                /\ UNCHANGED prompt
           ELSE
           /\ prompt' = IF CatchResetsPrompt(e, future, calls[c].future) THEN "" ELSE prompt
           /\ calls' = [calls EXCEPT ![c] =
                           [@ EXCEPT !.state = end.state, !.error = end.error,
                                     !.rejection = e,
                                     !.value = IF end.state = "returned"
                                                  THEN "undefined" ELSE "none",
                                     !.wasCurrent = (future = calls[c].future)]]
    /\ UNCHANGED <<source, executionCount, trusted, outputs, inputHidden, outputHidden,
                   outputWrapperHidden, future, requests, layoutVars, notExecVars>>

\* The output region streams an output of its current, in-flight request
\* into the record's outputs collection.
StreamOutput ==
    /\ Live("cell")
    /\ Len(outputs) < MaxOutputs
    /\ \E c \in 1..Len(calls) : calls[c].state = "pending" /\ calls[c].future = future
    /\ outputs' = Append(outputs, "output")
    /\ UNCHANGED <<source, executionCount, trusted, prompt, inputHidden, outputHidden,
                   outputWrapperHidden, future, requests, calls, layoutVars, notExecVars>>

\* A code cell bound to a fresh record, after initializeState():
\* setPrompt(`${executionCount || ''}`); beside it, the editable state of
\* widgets just constructed.
InitExecute ==
    /\ readOnly = [c \in Cells |-> FALSE]
    /\ syncEditable = [c \in Cells |-> FALSE]
    /\ metadata = [k \in MetaKeys |-> "undefined"]
    /\ writes = <<>>
    /\ lastOp = [op |-> "new", cell |-> "cell"]
    /\ kind = [c \in Cells |-> IF c = "cell" THEN "CodeCell" ELSE "none"]
    /\ data = [c \in Cells |-> IF c = "cell" THEN RecordId ELSE "null"]
    /\ contentFactory = [c \in Cells |-> IF c = "cell" THEN "default" ELSE "none"]
    /\ isDisposed = [c \in Cells |-> FALSE]
    /\ listeners = {<<"cell", f>> : f \in ListenedFields(kind["cell"])}
    /\ released = [p \in Cells \X Fields |-> 0]
    /\ viewPrompt = [c \in Cells |-> ""]
    /\ syncCollapse = FALSE
    /\ syncScrolled = FALSE
    /\ outputsScrolled = "undefined"
    /\ markdown = [c \in Cells |-> IF c = "cell" THEN Constructed(kind[c], <<>>)
                                    ELSE MarkdownFields]
    /\ source = <<>>
    /\ executionCount = Null
    /\ trusted = FALSE
    /\ outputs = <<>>
    /\ prompt = ""
    /\ inputHidden = FALSE
    /\ outputHidden = FALSE
    /\ outputWrapperHidden = FALSE
    /\ inputWrapperLayout = InputWrapperLayout
    /\ outputWrapperLayout = OutputWrapperLayout
    /\ future = 0
    /\ requests = <<>>
    /\ calls = <<>>

NextExecute ==
    \/ \E s \in Sources : EditSource(s)
    \/ \E v \in BOOLEAN : SetInputHidden(v)
    \/ \E v \in BOOLEAN : SetOutputHidden(v)
    \/ InputPlaceholderClicked
    \/ OutputPlaceholderClicked
    \/ \E k \in BOOLEAN, m \in CallerMetadata : Execute(k, m)
    \/ \E c \in 1..MaxCalls, n \in 1..MaxCount : ExecuteReply(c, n)
    \/ \E c \in 1..MaxCalls, e \in Errors : ExecuteReject(c, e)
    \/ StreamOutput

SpecExecute == InitExecute /\ [][NextExecute]_vars

\* The code cell may be disposed of while calls of execute await.
NextExecuteDispose ==
    \/ \E s \in Sources : EditSource(s)
    \/ \E k \in BOOLEAN, m \in CallerMetadata : Execute(k, m)
    \/ \E c \in 1..MaxCalls, n \in 1..MaxCount : ExecuteReply(c, n)
    \/ \E c \in 1..MaxCalls, e \in Errors : ExecuteReject(c, e)
    \/ StreamOutput
    \/ Dispose("cell")

SpecExecuteDispose == InitExecute /\ [][NextExecuteDispose]_vars

NextEditable ==
    \/ \E c \in Cells : InitializeState(c)
    \/ \E c \in Cells, v \in BOOLEAN : SetReadOnly(c, v)
    \/ \E c \in Cells, v \in BOOLEAN : SetSyncEditable(c, v)
    \/ \E c \in Cells : SaveEditableState(c)
    \/ \E c \in Cells : LoadEditableState(c)
    \/ \E k \in MetaKeys :
          \E v \in (MetaValues(k) \ {"undefined"}) \cup {"null"} : ExternalUpdate(k, v)

SpecEditable == InitEditable /\ [][NextEditable]_vars

(***************************************************************************)
(* A code cell and the collapse and scroll state kept in its record's      *)
(* metadata.                                                               *)
(***************************************************************************)
InitCollapse ==
    /\ readOnly = [c \in Cells |-> FALSE]
    /\ syncEditable = [c \in Cells |-> FALSE]
    /\ metadata \in {m \in [CodeMetaKeys -> {"undefined", "true", "auto", "obj"}] :
                       /\ m["editable"] = "undefined"
                       /\ \A k \in CodeMetaKeys : m[k] \in MetaValues(k)}
    /\ writes = <<>>
    /\ lastOp = [op |-> "new", cell |-> "cell"]
    /\ kind = [c \in Cells |-> IF c = "cell" THEN "CodeCell" ELSE "none"]
    /\ data = [c \in Cells |-> IF c = "cell" THEN RecordId ELSE "null"]
    /\ contentFactory = [c \in Cells |-> IF c = "cell" THEN "default" ELSE "none"]
    /\ isDisposed = [c \in Cells |-> FALSE]
    /\ listeners = {<<"cell", f>> : f \in ListenedFields(kind["cell"])}
    /\ released = [p \in Cells \X Fields |-> 0]
    /\ viewPrompt = [c \in Cells |-> ""]
    /\ syncCollapse = FALSE
    /\ syncScrolled = FALSE
    /\ outputsScrolled = "undefined"
    /\ markdown = [c \in Cells |-> MarkdownFields]
    /\ source = <<>>
    /\ executionCount = Null
    /\ trusted = FALSE
    /\ outputs = <<>>
    /\ prompt = ""
    /\ inputHidden = FALSE
    /\ outputHidden = FALSE
    /\ outputWrapperHidden = FALSE
    /\ inputWrapperLayout = InputWrapperLayout
    /\ outputWrapperLayout = OutputWrapperLayout
    /\ future = 0
    /\ requests = <<>>
    /\ calls = <<>>

NextCollapse ==
    \/ \E v \in BOOLEAN : SetInputHidden(v)
    \/ \E v \in BOOLEAN : SetOutputHidden(v)
    \/ InputPlaceholderClicked
    \/ OutputPlaceholderClicked
    \/ \E v \in BOOLEAN : SetSyncCollapse(v)
    \/ \E v \in BOOLEAN : SetSyncScrolled(v)
    \/ \E v \in {"false", "true"} : SetOutputsScrolled(v)
    \/ InitializeState("cell")
    \/ \E k \in CodeMetaKeys \ {"editable"} :
          \E v \in (MetaValues(k) \ {"undefined"}) \cup {"null"} : ExternalUpdate(k, v)

SpecCollapse == InitCollapse /\ [][NextCollapse]_vars

\* A widget of any class just constructed on a record of a document, and
\* what may happen to it up to and after its disposal.
InitDispose ==
    /\ readOnly = [c \in Cells |-> FALSE]
    /\ syncEditable = [c \in Cells |-> FALSE]
    /\ metadata \in {m \in [MetaKeys -> {"undefined", "false", "true"}] :
                       m["editable"] \in MetaValues("editable") /\ m["jupyter"] = "undefined"}
    /\ writes = <<>>
    /\ lastOp = [op |-> "new", cell |-> "cell"]
    /\ kind \in {k \in [Cells -> Kinds \cup {"none"}] : k["cell"] # "none" /\ k["clone"] = "none"}
    /\ data = [c \in Cells |-> IF c = "cell" THEN RecordId ELSE "null"]
    /\ contentFactory = [c \in Cells |-> IF c = "cell" THEN "default" ELSE "none"]
    /\ isDisposed = [c \in Cells |-> FALSE]
    /\ listeners = {<<"cell", f>> : f \in ListenedFields(kind["cell"])}
    /\ released = [p \in Cells \X Fields |-> 0]
    /\ viewPrompt = [c \in Cells |-> ""]
    /\ syncCollapse = FALSE
    /\ syncScrolled = FALSE
    /\ outputsScrolled = "undefined"
    /\ markdown = [c \in Cells |-> IF c = "cell" THEN Constructed(kind[c], <<>>)
                                    ELSE MarkdownFields]
    /\ source = <<>>
    /\ executionCount = Null
    /\ trusted = FALSE
    /\ outputs = <<>>
    /\ prompt = ""
    /\ inputHidden = FALSE
    /\ outputHidden = FALSE
    /\ outputWrapperHidden = FALSE
    /\ inputWrapperLayout = InputWrapperLayout
    /\ outputWrapperLayout = OutputWrapperLayout
    /\ future = 0
    /\ requests = <<>>
    /\ calls = <<>>

NextDispose ==
    \/ \E c \in Cells : Dispose(c)
    \/ \E c \in Cells : InitializeState(c)
    \/ \E c \in Cells, v \in BOOLEAN : SetReadOnly(c, v)
    \/ \E c \in Cells, v \in BOOLEAN : SetSyncEditable(c, v)
    \/ \E v \in {"false", "true", "null"} : ExternalUpdate("editable", v)
    \/ \E n \in 1..MaxCount : ExternalExecutionCount(Some(n))
    \/ ExternalExecutionCount(Null)
    \/ \E s \in Sources : TextChanged(s)

SpecDispose == InitDispose /\ [][NextDispose]_vars

\* A widget of any class just constructed on a fresh record with either
\* content factory, the clone made of it, and the editable state of both.
InitClone ==
    /\ readOnly = [c \in Cells |-> FALSE]
    /\ syncEditable = [c \in Cells |-> FALSE]
    /\ metadata = [k \in MetaKeys |-> "undefined"]
    /\ writes = <<>>
    /\ lastOp = [op |-> "new", cell |-> "cell"]
    /\ kind \in {k \in [Cells -> Kinds \cup {"none"}] : k["cell"] # "none" /\ k["clone"] = "none"}
    /\ data = [c \in Cells |-> IF c = "cell" THEN RecordId ELSE "null"]
    /\ contentFactory \in {f \in [Cells -> ContentFactories \cup {"none"}] :
                              f["cell"] # "none" /\ f["clone"] = "none"}
    /\ isDisposed = [c \in Cells |-> FALSE]
    /\ listeners = {<<"cell", f>> : f \in ListenedFields(kind["cell"])}
    /\ released = [p \in Cells \X Fields |-> 0]
    /\ viewPrompt = [c \in Cells |-> ""]
    /\ syncCollapse = FALSE
    /\ syncScrolled = FALSE
    /\ outputsScrolled = "undefined"
    /\ markdown = [c \in Cells |-> IF c = "cell" THEN Constructed(kind[c], <<>>)
                                    ELSE MarkdownFields]
    /\ source = <<>>
    /\ executionCount = Null
    /\ trusted = FALSE
    /\ outputs = <<>>
    /\ prompt = ""
    /\ inputHidden = FALSE
    /\ outputHidden = FALSE
    /\ outputWrapperHidden = FALSE
    /\ inputWrapperLayout = InputWrapperLayout
    /\ outputWrapperLayout = OutputWrapperLayout
    /\ future = 0
    /\ requests = <<>>
    /\ calls = <<>>

NextClone ==
    \/ \E c \in Cells : Clone(c)
    \/ \E c \in Cells, v \in BOOLEAN : SetReadOnly(c, v)
    \/ \E c \in Cells, v \in BOOLEAN : SetSyncEditable(c, v)
    \/ \E c \in Cells : LoadEditableState(c)

SpecClone == InitClone /\ [][NextClone]_vars

\* A MarkdownCell just constructed on a record with some text.
InitMarkdown ==
    /\ readOnly = [c \in Cells |-> FALSE]
    /\ syncEditable = [c \in Cells |-> FALSE]
    /\ metadata = [k \in MetaKeys |-> "undefined"]
    /\ writes = <<>>
    /\ lastOp = [op |-> "new", cell |-> "cell"]
    /\ kind = [c \in Cells |-> IF c = "cell" THEN "MarkdownCell" ELSE "none"]
    /\ data = [c \in Cells |-> IF c = "cell" THEN RecordId ELSE "null"]
    /\ contentFactory = [c \in Cells |-> IF c = "cell" THEN "default" ELSE "none"]
    /\ isDisposed = [c \in Cells |-> FALSE]
    /\ listeners = {<<"cell", f>> : f \in ListenedFields("MarkdownCell")}
    /\ released = [p \in Cells \X Fields |-> 0]
    /\ viewPrompt = [c \in Cells |-> ""]
    /\ syncCollapse = FALSE
    /\ syncScrolled = FALSE
    /\ outputsScrolled = "undefined"
    /\ source \in Sources
    /\ markdown = [c \in Cells |-> IF c = "cell" THEN MarkdownConstructor(source)
                                    ELSE MarkdownFields]
    /\ executionCount = Null
    /\ trusted = FALSE
    /\ outputs = <<>>
    /\ prompt = ""
    /\ inputHidden = FALSE
    /\ outputHidden = FALSE
    /\ outputWrapperHidden = FALSE
    /\ inputWrapperLayout = InputWrapperLayout
    /\ outputWrapperLayout = OutputWrapperLayout
    /\ future = 0
    /\ requests = <<>>
    /\ calls = <<>>

NextMarkdown ==
    \/ \E s \in Sources : TextChanged(s)
    \/ \E c \in Cells : DebounceElapsed(c)
    \/ \E c \in Cells : UpdateRequest(c)
    \/ \E c \in Cells, v \in BOOLEAN : SetRendered(c, v)
    \/ \E c \in Cells, ok \in BOOLEAN : FirstRenderSettled(c, ok)
    \/ \E c \in Cells, v \in BOOLEAN : SetReadOnly(c, v)
    \/ \E c \in Cells : Dispose(c)

SpecMarkdown == InitMarkdown /\ [][NextMarkdown]_vars

(***************************************************************************)
(* Properties of CodeCell.execute.                                         *)
(***************************************************************************)

\* A source text is blank when it is empty or holds white space only.
Blank(code) == \A i \in 1..Len(code) : IsWhitespace(code[i])

\* This step is a call of execute: the call is the last of calls'.
CallMade == Len(calls') = Len(calls) + 1

\* This step resumes call c, which was awaiting its reply.
Resumed(c) == c \in 1..Len(calls) /\ calls[c].state = "pending" /\ calls'[c].state # "pending"

\* Call c has submitted a request to the output region.
Submitted(c) == calls[c].future # 0

\* C1: execute called with a blank source or without a kernel sets the
\* record's executionCount to null and empties the outputs, submits no
\* request (the output region's future and the requests are untouched), and
\* returns undefined without an error.
C1_EarlyExit ==
    [][ (CallMade /\ (Blank(source) \/ ~calls'[Len(calls')].hadKernel)) =>
           LET k == calls'[Len(calls')]
           IN  /\ executionCount' = Null
               /\ outputs' = <<>>
               /\ requests' = requests
               /\ future' = future
               /\ k.future = 0
               /\ k.state = "returned"
               /\ k.value = "undefined"
               /\ k.error = "" ]_vars

\* A reply set the count to 1 and the prompt to "1"; then a call with a white
\* space source and a live kernel returned undefined, with the count reset and
\* the outputs empty.
C1_Witness ==
    /\ Len(calls) = 2
    /\ calls[1].value = "msg"
    /\ calls[2].blank /\ calls[2].hadKernel /\ source # <<>>
    /\ calls[2].state = "returned" /\ calls[2].value = "undefined"
    /\ executionCount = Null
    /\ outputs = <<>>
    /\ prompt = "1"
    /\ Len(requests) = 1

\* C2: execute with a non-blank source and a live kernel submits its
\* request from a view whose prompt is '*' and whose output is shown; when
\* its reply arrives and no execute call was made in between, the prompt
\* becomes the string of the reply's execution count.
C2_BusyThenCount ==
    [][ /\ (CallMade /\ ~Blank(source) /\ calls'[Len(calls')].hadKernel) =>
              /\ Len(requests') = Len(requests) + 1
              /\ requests'[Len(requests')].promptAtSubmit = "*"
              /\ requests'[Len(requests')].outputHiddenAtSubmit = FALSE
              /\ calls'[Len(calls')].future = Len(requests')
              /\ calls'[Len(calls')].state = "pending"
              /\ prompt' = "*"
              /\ outputHidden' = FALSE
        /\ \A c \in 1..Len(calls) :
              (Resumed(c) /\ calls'[c].value = "msg" /\ c = Len(calls)) =>
                  prompt' = ToString(calls'[c].reply.execution_count) ]_vars

\* The only call was submitted from a view with prompt '*'; its reply of
\* count 2 has arrived, the prompt is "2" and the output is shown beside a
\* hidden input.
C2_Witness ==
    /\ Len(calls) = 1
    /\ calls[1].value = "msg" /\ calls[1].reply.execution_count = 2
    /\ requests[1].promptAtSubmit = "*"
    /\ prompt = "2"
    /\ ~outputHidden
    /\ inputHidden

\* C3: when a call's execution is cancelled after a later call has submitted
\* its request (the output region's future is no longer the call's), the
\* catch clause leaves the prompt as it is.
C3_StaleCancelKeepsPrompt ==
    [][ \A c \in 1..Len(calls) :
           (Resumed(c) /\ calls'[c].rejection = CANCELED /\ future # calls[c].future) =>
               prompt' = prompt ]_vars

\* The first call was cancelled while the second was pending: the prompt is
\* still the second call's '*'.
C3_Witness ==
    /\ Len(calls) = 2
    /\ calls[1].rejection = CANCELED /\ ~calls[1].wasCurrent
    /\ calls[2].state = "pending" /\ future = calls[2].future
    /\ prompt = "*"

\* C4: a completion of a call, by reply or by cancellation, that is
\* observed once a later call has submitted its request changes neither the
\* prompt nor the record's executionCount.
C4_StaleCompletionChangesNothing ==
    [][ \A c \in 1..Len(calls) :
           (Resumed(c) /\ \E d \in (c + 1)..Len(calls) : Submitted(d)) =>
               (prompt' = prompt /\ executionCount' = executionCount) ]_vars

\* C5: when an execution fails with the cancellation error and the output
\* region's future is still the one the call captured, the prompt is reset
\* to the empty string.
C5_CurrentCancelResetsPrompt ==
    [][ \A c \in 1..Len(calls) :
           (Resumed(c) /\ calls'[c].rejection = CANCELED /\ future = calls[c].future) =>
               prompt' = "" ]_vars

\* The second of two overlapping calls was cancelled while current, and the
\* prompt is empty.
C5_Witness ==
    /\ Len(calls) = 2
    /\ calls[1].state = "pending"
    /\ calls[2].rejection = CANCELED /\ calls[2].wasCurrent
    /\ prompt = ""

C7_OtherErrorsPropagate ==
    [][ \A c \in 1..Len(calls) :
           (/\ Resumed(c)
            /\ calls'[c].rejection # ""
            /\ ~(calls'[c].rejection = CANCELED /\ future = calls[c].future)) =>
               /\ calls'[c].state = "threw"
               /\ calls'[c].error = calls'[c].rejection
               /\ prompt' = prompt
               /\ executionCount' = executionCount ]_vars

\* The only call failed with another error while current: the prompt is
\* still '*' and the count still null.
C7_Witness ==
    /\ Len(calls) = 1
    /\ calls[1].state = "threw" /\ calls[1].error = "Kernel died" /\ calls[1].wasCurrent
    /\ prompt = "*"
    /\ executionCount = Null

\* C8: on a reply, execute writes the reply's execution_count to the
\* record's executionCount and returns that reply message.
C8_ReplyWrittenAndReturned ==
    [][ \A c \in 1..Len(calls) :
           (Resumed(c) /\ calls'[c].reply # NoMsg) =>
               /\ executionCount' = Some(calls'[c].reply.execution_count)
               /\ calls'[c].state = "returned"
               /\ calls'[c].value = "msg"
               /\ calls'[c].ret = calls'[c].reply
               /\ calls'[c].ret.parent = calls[c].future ]_vars

\* The call got a reply of count 2 and returned it; the record holds 2.
C8_Witness ==
    /\ Len(calls) = 1
    /\ calls[1].state = "returned"
    /\ calls[1].ret = [parent |-> 1, execution_count |-> 2]
    /\ executionCount = Some(2)

(***************************************************************************)
(* Properties of the editable state.                                       *)
(***************************************************************************)

\* C9: with syncEditable enabled on a widget, when another writer sets
\* metadata key editable to false or removes it, the widget reloads its
\* editable state: afterwards its readOnly is true exactly when metadata
\* editable is false.
C9_EditableChangeReloads ==
    [][ \A c \in Cells :
           (/\ syncEditable[c] /\ syncEditable'[c]
            /\ writes' # <<>>
            /\ writes'[1].writer # c
            /\ writes'[1].key = "editable"
            /\ writes'[1].value \in {"false", "null"}) =>
               readOnly'[c] = (metadata'["editable"] = "false") ]_vars

\* C10: every update a widget makes to metadata key editable is the value
\* false, made when the widget is read-only, or the removal of the key, made
\* when it is not; true is never written; and an update made from the
\* readOnly setter is made with syncEditable enabled.
C10_EditableEncoding ==
    \A i \in 1..Len(writes) :
        LET w == writes[i]
        IN  w.writer \in Cells =>
               /\ w.key = "editable"
               /\ w.value # "true"
               /\ \/ (w.value = "false" /\ w.readOnly)
                  \/ (w.value = "null" /\ ~w.readOnly)
               /\ (w.origin = "setter" => w.sync)

\* Another writer set editable to true; a read-only widget with syncEditable
\* enabled reloaded, became editable and, from its setter, removed the key.
C10_Witness ==
    /\ Len(writes) = 2
    /\ writes[1].writer = "external" /\ writes[1].value = "true"
    /\ writes[2].writer \in Cells /\ writes[2].value = "null"
    /\ writes[2].origin = "setter"
    /\ metadata["editable"] = "undefined"

\* C11: saveEditableState commits no transaction when the view already
\* matches the model (readOnly with editable false, or editable with the
\* key absent); in particular the second of two saveEditableState calls in
\* a row on a widget commits none.
C11_SaveIsNoOpWhenMatching ==
    [][ \A c \in Cells :
           (/\ lastOp' = [op |-> "saveEditableState", cell |-> c]
            /\ \/ (readOnly[c] /\ metadata["editable"] = "false")
               \/ (~readOnly[c] /\ metadata["editable"] = "undefined")
               \/ lastOp = [op |-> "saveEditableState", cell |-> c]) =>
               (writes' = <<>> /\ metadata' = metadata /\ readOnly' = readOnly) ]_vars

\* saveEditableState was just called on a read-only widget whose record
\* holds editable false, written by an earlier save: nothing was committed.
C11_Witness ==
    \E c \in Cells :
        /\ lastOp = [op |-> "saveEditableState", cell |-> c]
        /\ readOnly[c] /\ ~syncEditable[c]
        /\ metadata["editable"] = "false"
        /\ writes = <<>>

\* C12: loadEditableState leaves readOnly equal to (metadata editable ===
\* false), whatever the view held before; so it does after readOnly was set
\* with syncEditable disabled and syncEditable was then enabled.
C12_LoadFollowsModel ==
    [][ \A c \in Cells :
           (lastOp'.cell = c /\ lastOp'.op \in {"loadEditableState", "initializeState"}) =>
               /\ readOnly'[c] = (metadata["editable"] = "false")
               /\ readOnly'[c] = (metadata'["editable"] = "false") ]_vars

\* loadEditableState was just called on a widget with syncEditable enabled
\* while the record holds editable false and the other widget is editable:
\* the widget is read-only.
C12_Witness ==
    \E c \in Cells :
        /\ lastOp = [op |-> "loadEditableState", cell |-> c]
        /\ syncEditable[c] /\ readOnly[c]
        /\ metadata["editable"] = "false"
        /\ \E d \in Cells : ~readOnly[d]

(***************************************************************************)
(* Properties of the collapse view state.                                  *)
(***************************************************************************)
\* C13: the input wrapper holds exactly one of the input area and its
\* placeholder, the input area exactly when inputHidden is false, and the
\* arrangement with the input shown is the one the constructor built, so two
\* toggles bring it back; an assignment of the current value changes nothing.
C13_InputOrPlaceholder ==
    /\ Attached(inputWrapperLayout, "input") = ~inputHidden
    /\ Attached(inputWrapperLayout, "placeholder") = inputHidden
    /\ ~inputHidden => inputWrapperLayout = InputWrapperLayout
    /\ \A v \in BOOLEAN :
          v = inputHidden =>
              InputHiddenSetter(v) = [inputWrapperLayout |-> inputWrapperLayout,
                                      inputHidden |-> inputHidden,
                                      outputWrapperHidden |-> outputWrapperHidden]

\* The input is hidden: the placeholder has taken the input area's place.
C13_Witness ==
    /\ inputHidden
    /\ inputWrapperLayout = <<"collapser", "placeholder">>

\* C14: whatever assignments of inputHidden and outputHidden were made, by
\* the setters, the placeholders or execute, the output wrapper is hidden
\* exactly when inputHidden and outputHidden are both true.
C14_WrapperHiddenIffBothHidden ==
    outputWrapperHidden = (inputHidden /\ outputHidden)

\* An execute call has been submitted, which shows the output, and input
\* and output are both hidden now: the wrapper is hidden.
C14_Witness ==
    /\ Len(requests) > 0
    /\ inputHidden /\ outputHidden /\ outputWrapperHidden

(***************************************************************************)
(* Properties of clone and dispose.                                        *)
(***************************************************************************)
\* The view state of widget c that store notifications may change.
ViewState(c) == <<readOnly[c], syncEditable[c], viewPrompt[c], markdown[c].debouncing,
                  markdown[c].updatePending, markdown[c].prevText>>

\* C15: the first dispose() of a widget releases each of its class's
\* subscriptions (metadata; executionCount for a CodeCell, text for a
\* MarkdownCell) exactly once and nulls its record reference; a second
\* dispose() does nothing; disposal never writes or removes the record; and
\* no step changes the view state of a disposed widget.
C15_DisposeIdempotent ==
    [][ \A c \in Cells :
          /\ (lastOp' = [op |-> "dispose", cell |-> c] /\ ~isDisposed[c]) =>
                /\ isDisposed'[c] /\ data'[c] = "null"
                /\ \A f \in Fields :
                      /\ <<c, f>> \notin listeners'
                      /\ released'[<<c, f>>] =
                            IF f \in ListenedFields(kind[c]) THEN 1 ELSE 0
                /\ metadata' = metadata /\ writes' = <<>>
                /\ source' = source /\ executionCount' = executionCount
          /\ (lastOp' = [op |-> "dispose", cell |-> c] /\ isDisposed[c]) =>
                UNCHANGED <<syncVars, execVars, layoutVars, readOnly, syncEditable, metadata,
                            lifeVars, viewPrompt, markdown>>
          /\ isDisposed[c] =>
                (isDisposed'[c] /\ ViewState(c)' = ViewState(c)) ]_vars

\* dispose() was called again on a disposed widget that was read-only with
\* syncEditable on, and the record now holds editable true.
C15_Witness ==
    \E c \in Cells :
        /\ lastOp = [op |-> "dispose", cell |-> c]
        /\ isDisposed[c] /\ readOnly[c] /\ syncEditable[c]
        /\ metadata["editable"] = "true"
        /\ \A f \in ListenedFields(kind[c]) : released[<<c, f>>] = 1

\* C16: clone() makes a second widget of the same class on the same record
\* and content factory, with the private fields at their defaults whatever
\* the original's; and when the record's editable is what the save of one
\* widget with syncEditable on leaves, loadEditableState on the other gives
\* it the readOnly of the first.
C16_CloneSharesRecord ==
    [][ \A c \in Cells :
          /\ lastOp' = [op |-> "clone", cell |-> c] =>
                /\ kind'["clone"] = kind[c] /\ kind[c] \in Kinds
                /\ data'["clone"] = data[c] /\ data[c] = RecordId
                /\ contentFactory'["clone"] = contentFactory[c]
                /\ ~readOnly'["clone"] /\ ~syncEditable'["clone"]
                /\ readOnly'[c] = readOnly[c] /\ syncEditable'[c] = syncEditable[c]
          /\ \A d \in Cells \ {c} :
                (/\ lastOp' = [op |-> "loadEditableState", cell |-> d]
                 /\ Live(c) /\ syncEditable[c] /\ data[c] = data[d]
                 /\ metadata["editable"] = Stored(EditableValue(readOnly[c]))) =>
                    readOnly'[d] = readOnly[c] ]_vars

\* The clone, whose syncEditable is off, has just loaded the editable state
\* that the read-only original saved: both are read-only.
C16_Witness ==
    /\ lastOp = [op |-> "loadEditableState", cell |-> "clone"]
    /\ readOnly["cell"] /\ syncEditable["cell"]
    /\ readOnly["clone"] /\ ~syncEditable["clone"]
    /\ metadata["editable"] = "false"
    /\ kind["clone"] = kind["cell"] /\ data["clone"] = data["cell"]

(***************************************************************************)
(* Properties of MarkdownCell.                                             *)
(***************************************************************************)
\* The MarkdownCell widgets.
MarkdownCells == {c \in Cells : kind[c] = "MarkdownCell"}

\* C17: when rendered is set to false and back to true while the text is
\* the one last rendered, neither assignment starts a render: renderModel
\* is not called and the last rendered text stays.
C17_ToggleDoesNotRerender ==
    [][ \A c \in MarkdownCells :
           (/\ lastOp' = [op |-> "rendered", cell |-> c]
            /\ TextToRender(source) = markdown[c].prevText) =>
               /\ markdown'[c].calls = <<>>
               /\ markdown'[c].prevText = markdown[c].prevText
               /\ markdown'[c].rendered = ~markdown[c].rendered ]_vars

\* rendered has just been set back to true on a widget whose text was
\* rendered before: the preview shows and no render was started.
C17_Witness ==
    \E c \in MarkdownCells :
        /\ lastOp = [op |-> "rendered", cell |-> c]
        /\ markdown[c].rendered /\ markdown[c].shows = "rendered"
        /\ markdown[c].prevText = TextToRender(source)
        /\ markdown[c].calls = <<>>

\* C18 as stated: a burst of text changes in rendered mode, once the timer
\* has elapsed and its update is processed with no new change, has had
\* exactly one render, of the latest text; and a text that a later change of
\* the burst replaces has not been rendered.
C18_BurstRendersExactlyOnce ==
    [][ \A c \in MarkdownCells :
          /\ (/\ lastOp' = [op |-> "updateRequest", cell |-> c]
              /\ markdown[c].fired /\ ~markdown[c].debouncing
              /\ markdown[c].burstMode /\ markdown[c].rendered) =>
                 /\ markdown'[c].burstRenders = 1
                 /\ markdown'[c].prevText = TextToRender(source)
          /\ (/\ lastOp' = [op |-> "text", cell |-> "external"]
              /\ markdown[c].debouncing
              /\ markdown[c].burstMode /\ markdown[c].rendered) =>
                 markdown[c].burstRenders = 0 ]_vars

\* C18: a text change starts the debouncer's timer, or starts it anew, and
\* neither starts a render nor requests an update; the timer's elapsing
\* starts no render and requests an update in rendered mode only; and the
\* processing, in rendered mode, of the update the debouncer requested
\* starts one render, of the latest text, when that differs from the text
\* last rendered, and none when it does not.
C18_BurstRendersLatestAtMostOnce ==
    [][ \A c \in MarkdownCells :
          /\ (lastOp' = [op |-> "text", cell |-> "external"] /\ Live(c)) =>
                /\ markdown'[c].calls = <<>>
                /\ markdown'[c].debouncing
                /\ markdown'[c].updatePending = markdown[c].updatePending
                /\ markdown'[c].prevText = markdown[c].prevText
          /\ lastOp' = [op |-> "elapsed", cell |-> c] =>
                /\ markdown'[c].calls = <<>>
                /\ ~markdown'[c].debouncing
                /\ markdown'[c].updatePending =
                      (markdown[c].updatePending \/ markdown[c].rendered)
          /\ (/\ lastOp' = [op |-> "updateRequest", cell |-> c]
              /\ markdown[c].fired /\ markdown[c].rendered) =>
                /\ markdown'[c].calls =
                      IF TextToRender(source) # markdown[c].prevText
                      THEN <<TextToRender(source)>> ELSE <<>>
                /\ markdown'[c].prevText = TextToRender(source)
                /\ ~markdown'[c].updatePending ]_vars

\* A burst of two or more text changes in rendered mode is over, and the
\* update its timer requested has just started the burst's one render, of
\* the latest text.
C18_Witness ==
    \E c \in MarkdownCells :
        /\ lastOp = [op |-> "updateRequest", cell |-> c]
        /\ markdown[c].burstChanges = 2 /\ markdown[c].burstMode
        /\ ~markdown[c].debouncing
        /\ markdown[c].burstRenders = 1
        /\ markdown[c].calls = <<TextToRender(source)>>

\* C19: every text handed to renderModel is the current text, or the
\* placeholder when the current text is empty, and never the empty string;
\* so is the text of the render the constructor starts.
C19_EmptyRendersPlaceholder ==
    \A c \in MarkdownCells :
        /\ \A i \in 1..Len(markdown[c].calls) :
              /\ markdown[c].calls[i] # <<>>
              /\ markdown[c].calls[i] =
                    IF source = <<>> THEN DEFAULT_MARKDOWN_TEXT ELSE source
        /\ markdown[c].prevText # <<>>
        /\ lastOp.op = "new" => Len(markdown[c].calls) = 1

\* The text was emptied after another text had been rendered, and the update
\* just processed handed the placeholder to the renderer.
C19_Witness ==
    \E c \in MarkdownCells :
        /\ lastOp = [op |-> "updateRequest", cell |-> c]
        /\ source = <<>>
        /\ markdown[c].calls = <<DEFAULT_MARKDOWN_TEXT>>

\* C20: the ready promise of a MarkdownCell is resolved exactly when the
\* render its constructor started has completed, and has been resolved once
\* then and never before, whatever renders were started since.
C20_ReadyAfterFirstRender ==
    \A c \in MarkdownCells :
        /\ (markdown[c].ready = "resolved") = (markdown[c].firstRender = "done")
        /\ markdown[c].resolves = IF markdown[c].firstRender = "done" THEN 1 ELSE 0
        /\ markdown[c].firstRender # "none"

\* The ready promise is resolved and a later render, of another text than
\* the constructor's, has just been started.
C20_Witness ==
    \E c \in MarkdownCells :
        /\ markdown[c].ready = "resolved" /\ markdown[c].resolves = 1
        /\ lastOp = [op |-> "updateRequest", cell |-> c]
        /\ markdown[c].calls # <<>>

\* C21: once a MarkdownCell is disposed of, its debouncer's timer does not
\* run, its text subscription is released, no update request is posted to
\* it and no step starts a render of it, whatever the text does afterwards.
C21_DisposeCancelsDebounce ==
    \A c \in MarkdownCells :
        isDisposed[c] =>
            /\ ~markdown[c].debouncing
            /\ ~markdown[c].updatePending
            /\ markdown[c].calls = <<>>
            /\ <<c, "text">> \notin listeners

\* The widget was disposed of while its timer ran, before the changed text
\* was rendered, and the text has just changed again.
C21_Witness ==
    \E c \in MarkdownCells :
        /\ isDisposed[c] /\ markdown[c].cancelled
        /\ lastOp = [op |-> "text", cell |-> "external"]
        /\ markdown[c].prevText # TextToRender(source)

\* C22: a change of the record's executionCount to a non-null value sets the
\* prompt of every subscribed code cell widget to the string form of that
\* value; a change to null leaves the prompt of every widget as it was.
C22_PromptFollowsExecutionCount ==
    [][(lastOp'.op = "executionCount" /\ lastOp'.cell = "external") =>
          \A c \in Cells :
              IF executionCount' # Null /\ <<c, "executionCount">> \in listeners
              THEN viewPrompt'[c] = ToString(executionCount'[1])
              ELSE viewPrompt'[c] = viewPrompt[c]]_vars

\* The count has just changed to null while the widget still listens, and
\* its prompt shows the count of an earlier notification.
C22_Witness ==
    /\ lastOp = [op |-> "executionCount", cell |-> "external"]
    /\ executionCount = Null
    /\ <<"cell", "executionCount">> \in listeners
    /\ viewPrompt["cell"] \in {ToString(n) : n \in 1..MaxCount}

\* C23: a MarkdownCell starts no render while rendered is false: a step that
\* leaves the widget in editing mode (a text change, an elapsed timer, an
\* update request, a readOnly change, the switch to editing mode) calls
\* renderModel not at all and leaves the last-rendered text as it was; the
\* step that sets rendered to true again renders the text of that moment.
C23_NoRenderWhileEditing ==
    [][\A c \in MarkdownCells :
          /\ ~markdown'[c].rendered =>
                 /\ markdown'[c].calls = <<>>
                 /\ markdown'[c].prevText = markdown[c].prevText
          /\ (lastOp' = [op |-> "rendered", cell |-> c] /\ markdown'[c].rendered) =>
                 markdown'[c].prevText = TextToRender(source')]_vars

\* An update request has just been processed in editing mode while the text
\* differs from the one last rendered.
C23_Witness ==
    \E c \in MarkdownCells :
        /\ ~markdown[c].rendered
        /\ lastOp = [op |-> "updateRequest", cell |-> c]
        /\ markdown[c].prevText # TextToRender(source)

\* C24: a call of execute that passes the early-exit test commits the reset
\* of executionCount and the trusted mark in one transaction, made after the
\* output is revealed and the prompt set to '*': at the one commit the four
\* changes are all visible, so no subscriber is notified of a part of them;
\* and the record is trusted from then on, however the calls end.
C24_PreExecutionStateAtomic ==
    \A c \in 1..Len(calls) :
        calls[c].future # 0 =>
            /\ Len(calls[c].commits) = 1
            /\ \A i \in 1..Len(calls[c].commits) :
                   calls[c].commits[i] =
                       [prompt |-> "*", outputHidden |-> FALSE,
                        executionCount |-> Null, trusted |-> TRUE]
            /\ trusted

\* The first call, made on an untrusted record, was submitted with the
\* output revealed and has ended with an error; the record is trusted.
C24_Witness ==
    /\ Len(calls) >= 1
    /\ calls[1].future # 0 /\ calls[1].state = "threw"
    /\ ~requests[1].outputHiddenAtSubmit
    /\ trusted

C26_ScrolledSyncedWithMetadata ==
    /\ (lastOp.op = "initializeState" \/ (lastOp.op = "syncScrolled" /\ syncScrolled)) =>
           outputsScrolled = (IF metadata["scrolled"] = "true" THEN "true" ELSE "false")
    /\ (lastOp.op = "outputsScrolled" /\ syncScrolled) =>
           metadata["scrolled"] = (IF outputsScrolled = "true" THEN "true" ELSE "undefined")

(***************************************************************************)
(* Two widgets of one record with syncEditable set.                        *)
(***************************************************************************)
\* C27: with syncEditable set on both widgets of a record, an assignment of
\* readOnly on one of them commits at most one transaction, made by that
\* widget's setter: the notification of it makes neither widget write again,
\* and the operation ends.
C27_OneTransactionPerAssignment ==
    [][ \A c \in Cells :
           (/\ lastOp' = [op |-> "readOnly", cell |-> c]
            /\ \A d \in Cells : syncEditable[d]) =>
               /\ Len(writes') <= 1
               /\ \A i \in 1..Len(writes') :
                      writes'[i].writer = c /\ writes'[i].origin = "setter" ]_vars

\* Both widgets have syncEditable set; one has just been made read-only and
\* committed the one update, and the other is still editable.
C27_Witness ==
    \E c \in Cells :
        /\ lastOp = [op |-> "readOnly", cell |-> c]
        /\ \A d \in Cells : syncEditable[d]
        /\ Len(writes) = 1 /\ writes[1].writer = c /\ writes[1].value = "false"
        /\ readOnly[c] /\ \E d \in Cells \ {c} : ~readOnly[d]

(***************************************************************************)
(* execute and dispose.                                                    *)
(***************************************************************************)
\* C28: a call of execute that reached its await settles with the reply it
\* was given, or with the error the transport rejected it with, also when
\* the cell was disposed of meanwhile: no call ends with a fault of its own.
C28_DisposedCallSettlesCleanly ==
    \A c \in 1..Len(calls) :
        (calls[c].future # 0 /\ calls[c].state # "pending") =>
            \/ calls[c].state = "returned" /\ calls[c].ret = calls[c].reply
            \/ calls[c].state = "threw" /\ calls[c].error = calls[c].rejection

=============================================================================
